---------------------------- MODULE Spec2Model ----------------------------
(***************************************************************************)
(* gd_parser: gd::parse (src/gd_parser.hpp), the canonical variant (lines  *)
(* 241-497) and the earlier variant kept above it (lines 1-239).           *)
(*                                                                         *)
(* A text is a sequence of one-character strings.  The grammar of lines    *)
(* 306-333 (65-90 for the earlier variant) is written down rule by rule as *)
(* a tree of PEG operators, the parser["..."] callbacks as operators over  *)
(* the semantic values they receive, and the PEG engine the header hands   *)
(* both to (peg::parser of peglib.h) as the recursive operator ParseOpe.   *)
(***************************************************************************)
EXTENDS Integers, Sequences, FiniteSets, TLC

(***************************************************************************)
(* PEG operators, as peg::parser builds them from the grammar text.        *)
(***************************************************************************)
lit(text)  == [op |-> "lit", lit |-> text]
cls(chars) == [op |-> "cls", chars |-> chars, negated |-> FALSE]
ncls(chars) == [op |-> "cls", chars |-> chars, negated |-> TRUE]
dic(words) == [op |-> "dic", words |-> words]
seq(opes)  == [op |-> "seq", opes |-> opes]
cho(opes)  == [op |-> "cho", opes |-> opes]
zom(ope)   == [op |-> "rep", ope |-> ope, min |-> 0, many |-> TRUE]
oom(ope)   == [op |-> "rep", ope |-> ope, min |-> 1, many |-> TRUE]
opt(ope)   == [op |-> "rep", ope |-> ope, min |-> 0, many |-> FALSE]
tok(ope)   == [op |-> "tok", ope |-> ope]
ref(name)  == [op |-> "ref", name |-> name]

Digits  == {"0", "1", "2", "3", "4", "5", "6", "7", "8", "9"}
Lowers  == {"a", "b", "c", "d", "e", "f", "g", "h", "i", "j", "k", "l", "m",
            "n", "o", "p", "q", "r", "s", "t", "u", "v", "w", "x", "y", "z"}
Uppers  == {"A", "B", "C", "D", "E", "F", "G", "H", "I", "J", "K", "L", "M",
            "N", "O", "P", "Q", "R", "S", "T", "U", "V", "W", "X", "Y", "Z"}

(***************************************************************************)
(* The grammar, lines 306-333.  List(T) is a macro: peglib parses a macro  *)
(* body into the semantic values of the rule that uses it, so it is an     *)
(* operator on PEG trees and not a rule of its own.                        *)
(***************************************************************************)
\* A list that takes a separator before its closing bracket.
List_trailing(T) ==
    opt(seq(<<T, zom(seq(<<lit(<<",">>), T>>)), opt(lit(<<",">>))>>))

List(T) == opt(seq(<<T, zom(seq(<<lit(<<",">>), T>>))>>))

File == oom(ref("Tag"))
Tag == seq(<<lit(<<"[">>), ref("Identifier"), ref("Fields"), lit(<<"]">>),
             opt(ref("Assignments"))>>)
Fields == zom(ref("Field"))
Assignments == oom(ref("Field"))
Field == seq(<<ref("Identifier"), lit(<<"=">>), ref("Value")>>)
Property == seq(<<ref("String"), lit(<<":">>), ref("Value")>>)
Value == cho(<<ref("Constructable"), ref("Dictionary"), ref("Array"),
               ref("Boolean"), ref("String"), ref("Numeric")>>)
Numeric == cho(<<ref("Float"), ref("Integer")>>)
Integer == tok(seq(<<opt(lit(<<"-">>)), ref("Number")>>))
\* A Float that needs no digit after its '.'.
Float_no_fraction == tok(seq(<<ref("Integer"), lit(<<".">>), opt(ref("Number")),
                               opt(seq(<<lit(<<"e">>), ref("Integer")>>))>>))
Float == tok(seq(<<ref("Integer"), lit(<<".">>), ref("Number"),
                   opt(seq(<<lit(<<"e">>), ref("Integer")>>))>>))
String == seq(<<lit(<<"\"">>), tok(zom(ncls({"\""}))), lit(<<"\"">>)>>)
Array == seq(<<lit(<<"[">>), List(ref("Value")), lit(<<"]">>)>>)
Dictionary == seq(<<lit(<<"{">>), List(ref("Property")), lit(<<"}">>)>>)
Constructable == seq(<<ref("Identifier"), lit(<<"(">>), List(ref("Value")),
                       lit(<<")">>)>>)
Number == oom(cls(Digits))
\* An identifier as general-purpose languages write it.
Identifier_letter_first ==
    tok(seq(<<cls(Lowers \cup Uppers \cup {"_"}),
              zom(cls(Lowers \cup Uppers \cup {"_"} \cup Digits))>>))
Identifier == tok(oom(cls(Lowers \cup Uppers \cup {".", ":", "_"} \cup Digits)))
Boolean == dic({<<"t", "r", "u", "e">>, <<"f", "a", "l", "s", "e">>})
whitespace == zom(cls({" ", "\t", "\n", "\r"}))

(***************************************************************************)
(* The two rules the earlier variant writes differently, lines 75 and 77.  *)
(***************************************************************************)
LegacyValue == cho(<<ref("Numeric"), ref("String"), ref("Constructable"),
                     ref("Dictionary"), ref("Array"), ref("Boolean")>>)
\* A Numeric with no fraction.
LegacyNumeric_integer == tok(ref("Integer"))
LegacyNumeric == tok(seq(<<ref("Integer"),
                           opt(seq(<<lit(<<".">>), ref("Number"),
                                     opt(seq(<<lit(<<"e">>), ref("Integer")>>))>>))>>))

(***************************************************************************)
(* peg::parser(grammar): the rules by name.  With a %whitespace rule, the  *)
(* parser generator wraps every rule that is only literals (a literal, a   *)
(* '|' dictionary, a choice of those) in a token boundary.                 *)
(***************************************************************************)
IsLiteralToken(ope) ==
    \/ ope.op \in {"lit", "dic"}
    \/ /\ ope.op = "cho"
       /\ \A k \in 1..Len(ope.opes) : ope.opes[k].op \in {"lit", "dic"}

RuleNames == {"File", "Tag", "Fields", "Assignments", "Field", "Property",
              "Value", "Numeric", "Integer", "Float", "String", "Array",
              "Dictionary", "Constructable", "Number", "Identifier",
              "Boolean", "%whitespace"}

Rule(name) ==
    CASE name = "File" -> File
      [] name = "Tag" -> Tag
      [] name = "Fields" -> Fields
      [] name = "Assignments" -> Assignments
      [] name = "Field" -> Field
      [] name = "Property" -> Property
      [] name = "Value" -> Value
      [] name = "Numeric" -> Numeric
      [] name = "Integer" -> Integer
      [] name = "Float" -> Float
      [] name = "String" -> String
      [] name = "Array" -> Array
      [] name = "Dictionary" -> Dictionary
      [] name = "Constructable" -> Constructable
      [] name = "Number" -> Number
      [] name = "Identifier" -> Identifier
      [] name = "Boolean" -> Boolean
      [] name = "%whitespace" -> whitespace

LegacyRule(name) ==
    CASE name = "Value" -> LegacyValue
      [] name = "Numeric" -> LegacyNumeric
      [] OTHER -> Rule(name)

LegacyRuleNames == RuleNames \ {"Float"}

grammar ==
    [name \in RuleNames |->
        IF IsLiteralToken(Rule(name)) THEN tok(Rule(name)) ELSE Rule(name)]

legacy_grammar ==
    [name \in LegacyRuleNames |->
        IF IsLiteralToken(LegacyRule(name)) THEN tok(LegacyRule(name))
        ELSE LegacyRule(name)]

(***************************************************************************)
(* token_to_number<int> and token_to_number<float> (peglib), as lines 441, *)
(* 445 and 203 call them.  The int is read by std::from_chars, which       *)
(* leaves the result at its initial 0 when the digits do not fit an int.   *)
(* The float is read by operator>>; it is kept here as the decimal it      *)
(* denotes (sign, significant digits, power of ten), so two spellings of   *)
(* one number are one value; binary rounding is not modelled.              *)
(***************************************************************************)
DigitValue == [c \in Digits |->
    CASE c = "0" -> 0 [] c = "1" -> 1 [] c = "2" -> 2 [] c = "3" -> 3
      [] c = "4" -> 4 [] c = "5" -> 5 [] c = "6" -> 6 [] c = "7" -> 7
      [] c = "8" -> 8 [] c = "9" -> 9]

DigitChar == [d \in 0..9 |-> CHOOSE c \in Digits : DigitValue[c] = d]

RECURSIVE NatOf(_)
NatOf(ds) ==
    IF ds = <<>> THEN 0
    ELSE NatOf(SubSeq(ds, 1, Len(ds) - 1)) * 10 + DigitValue[ds[Len(ds)]]

RECURSIVE StripLeadingZeros(_)
StripLeadingZeros(ds) ==
    IF ds # <<>> /\ ds[1] = "0" THEN StripLeadingZeros(Tail(ds)) ELSE ds

RECURSIVE StripTrailingZeros(_)
StripTrailingZeros(ds) ==
    IF ds # <<>> /\ ds[Len(ds)] = "0"
    THEN StripTrailingZeros(SubSeq(ds, 1, Len(ds) - 1)) ELSE ds

IndexOf(t, c) ==
    IF \E k \in 1..Len(t) : t[k] = c
    THEN CHOOSE k \in 1..Len(t) : t[k] = c /\ \A j \in 1..(k - 1) : t[j] # c
    ELSE 0

IntMaxHigh == 214748364
IntMaxLow == 7

token_to_int(token) ==
    LET neg == token # <<>> /\ token[1] = "-"
        ds  == StripLeadingZeros(IF neg THEN Tail(token) ELSE token)
        hi  == NatOf(SubSeq(ds, 1, Len(ds) - 1))
        lo  == DigitValue[ds[Len(ds)]]
        fits == \/ Len(ds) < 10
                \/ /\ Len(ds) = 10
                   /\ \/ hi < IntMaxHigh
                      \/ hi = IntMaxHigh /\ lo <= IntMaxLow + (IF neg THEN 1 ELSE 0)
    IN  IF ds = <<>> \/ ~fits THEN 0
        ELSE IF neg THEN (0 - hi * 10) - lo ELSE hi * 10 + lo

Decimal(neg, ds, exp) ==
    LET lead == StripLeadingZeros(ds)
        sig  == StripTrailingZeros(lead)
    IN  IF sig = <<>> THEN [neg |-> FALSE, digits |-> <<>>, exp |-> 0]
        ELSE [neg |-> neg, digits |-> sig, exp |-> exp + (Len(lead) - Len(sig))]

token_to_float(token) ==
    LET neg  == token # <<>> /\ token[1] = "-"
        body == IF neg THEN Tail(token) ELSE token
        e    == IndexOf(body, "e")
        mant == IF e = 0 THEN body ELSE SubSeq(body, 1, e - 1)
        exp  == IF e = 0 THEN 0 ELSE token_to_int(SubSeq(body, e + 1, Len(body)))
        dot  == IndexOf(mant, ".")
        int  == IF dot = 0 THEN mant ELSE SubSeq(mant, 1, dot - 1)
        frac == IF dot = 0 THEN <<>> ELSE SubSeq(mant, dot + 1, Len(mant))
    IN  Decimal(neg, int \o frac, exp - Len(frac))

(***************************************************************************)
(* Semantic values.  A std::any is its held type and value; an any_cast to *)
(* another type throws std::bad_any_cast, kept as a value of that type so  *)
(* that a failed cast anywhere is visible in what the callback returns.    *)
(* A callback receives peg::SemanticValues: the values of the rule's       *)
(* sub-rules, the tokens its <...> captured, the index of the alternative  *)
(* its top-level choice took, and the text it matched.                     *)
(***************************************************************************)
any(type, val) == [type |-> type, val |-> val]
empty_any == any("void", <<>>)
bad_any_cast == any("bad_any_cast", <<>>)

AllOfType(values, from, type) ==
    \A k \in from..Len(values.values) : values.values[k].type = type

transform(values, from) ==
    [k \in 1..(Len(values.values) - from + 1) |-> values.values[k + from - 1].val]

token(values) ==
    IF values.tokens # <<>> THEN values.tokens[1] ELSE values.sv

(***************************************************************************)
(* The values of the AST.  A gd::value (havoc::one_of) and a numeric_t     *)
(* (std::variant) are records of one field, named after the alternative    *)
(* that is held.                                                           *)
(***************************************************************************)
default_value == [constructable |-> [identifier |-> <<>>, arguments |-> <<>>]]
default_numeric == [float |-> [neg |-> FALSE, digits |-> <<>>, exp |-> 0]]
empty_file == [tags |-> <<>>]

\* The tags pushed to the front.
parser_File_front(values) ==
    IF AllOfType(values, 1, "gd::tag")
    THEN any("gd::file",
             [tags |-> [k \in 1..Len(values.values) |->
                            values.values[Len(values.values) + 1 - k].val]])
    ELSE bad_any_cast

parser_File(values) ==
    IF AllOfType(values, 1, "gd::tag")
    THEN any("gd::file", [tags |-> transform(values, 1)])
    ELSE bad_any_cast

parser_Fields(values) ==
    IF AllOfType(values, 1, "gd::field")
    THEN any("detail::fields", transform(values, 1))
    ELSE bad_any_cast

parser_Assignments(values) ==
    IF AllOfType(values, 1, "gd::field")
    THEN any("detail::assignments", transform(values, 1))
    ELSE bad_any_cast

LastOfType(values, type) ==
    LET ks == {k \in 2..Len(values.values) : values.values[k].type = type}
    IN  IF ks = {} THEN <<>>
        ELSE values.values[CHOOSE k \in ks : \A j \in ks : j <= k].val

\* The two assignments of the loop exchanged.
parser_Tag_exchanged(values) ==
    IF values.values[1].type = "std::string"
    THEN any("gd::tag", [identifier |-> values.values[1].val,
                         fields |-> LastOfType(values, "detail::assignments"),
                         assignments |-> LastOfType(values, "detail::fields")])
    ELSE bad_any_cast

parser_Tag(values) ==
    IF values.values[1].type = "std::string"
    THEN any("gd::tag", [identifier |-> values.values[1].val,
                         fields |-> LastOfType(values, "detail::fields"),
                         assignments |-> LastOfType(values, "detail::assignments")])
    ELSE bad_any_cast

parser_Constructable(values) ==
    IF values.values[1].type = "std::string" /\ AllOfType(values, 2, "gd::value")
    THEN any("gd::constructable", [identifier |-> values.values[1].val,
                                   arguments |-> transform(values, 2)])
    ELSE bad_any_cast

parser_Property(values) ==
    IF values.values[1].type = "std::string" /\ values.values[2].type = "gd::value"
    THEN any("std::pair", <<values.values[1].val, values.values[2].val>>)
    ELSE bad_any_cast

(***************************************************************************)
(* std::inserter(dictionary, begin(dictionary)) assigns through            *)
(* unordered_map::insert(hint, pair), which leaves the map as it is when   *)
(* the key is already there.                                               *)
(***************************************************************************)
insert(dictionary, pair) ==
    IF pair[1] \in DOMAIN dictionary THEN dictionary
    ELSE [k \in DOMAIN dictionary \cup {pair[1]} |->
            IF k = pair[1] THEN pair[2] ELSE dictionary[k]]

RECURSIVE inserter(_, _, _)
inserter(dictionary, pairs, k) ==
    IF k > Len(pairs) THEN dictionary
    ELSE inserter(insert(dictionary, pairs[k]), pairs, k + 1)

parser_Dictionary(values) ==
    IF AllOfType(values, 1, "std::pair")
    THEN any("gd::dictionary_t", inserter(<<>>, transform(values, 1), 1))
    ELSE bad_any_cast

parser_Array(values) ==
    IF AllOfType(values, 1, "gd::value")
    THEN any("gd::array_t", transform(values, 1))
    ELSE bad_any_cast

parser_Field(values) ==
    IF values.values[1].type = "std::string" /\ values.values[2].type = "gd::value"
    THEN any("gd::field", [name |-> values.values[1].val,
                           value |-> values.values[2].val])
    ELSE bad_any_cast

parser_String(values) == any("std::string", token(values))

parser_Identifier(values) == any("std::string", token(values))

parser_Integer(values) == any("int", token_to_int(token(values)))

parser_Float(values) == any("float", token_to_float(token(values)))

parser_Boolean(values) == any("bool", token(values) = <<"t", "r", "u", "e">>)

parser_Numeric(values) ==
    CASE values.choice = 0 ->
            IF values.values[1].type = "float"
            THEN any("gd::numeric_t", [float |-> values.values[1].val])
            ELSE bad_any_cast
      [] values.choice = 1 ->
            IF values.values[1].type = "int"
            THEN any("gd::numeric_t", [int |-> values.values[1].val])
            ELSE bad_any_cast
      [] OTHER -> any("gd::numeric_t", default_numeric)

ValueCase(values, type, alternative) ==
    IF values.values[1].type = type
    THEN any("gd::value", [a \in {alternative} |-> values.values[1].val])
    ELSE bad_any_cast

\* The switch in the order of the earlier variant's grammar.
parser_Value_earlier_order(values) ==
    CASE values.choice = 0 -> ValueCase(values, "gd::numeric_t", "numeric")
      [] values.choice = 1 -> ValueCase(values, "std::string", "string")
      [] values.choice = 2 -> ValueCase(values, "gd::constructable", "constructable")
      [] values.choice = 3 -> ValueCase(values, "gd::dictionary_t", "dictionary")
      [] values.choice = 4 -> ValueCase(values, "gd::array_t", "array")
      [] values.choice = 5 -> ValueCase(values, "bool", "bool")
      [] OTHER -> any("gd::value", default_value)

parser_Value(values) ==
    CASE values.choice = 0 -> ValueCase(values, "gd::constructable", "constructable")
      [] values.choice = 1 -> ValueCase(values, "gd::dictionary_t", "dictionary")
      [] values.choice = 2 -> ValueCase(values, "gd::array_t", "array")
      [] values.choice = 3 -> ValueCase(values, "bool", "bool")
      [] values.choice = 4 -> ValueCase(values, "std::string", "string")
      [] values.choice = 5 -> ValueCase(values, "gd::numeric_t", "numeric")
      [] OTHER -> any("gd::value", default_value)

(***************************************************************************)
(* The earlier variant's callbacks that differ: one float Numeric (line    *)
(* 202) and the Value switch in the order of its own grammar (line 206).   *)
(***************************************************************************)
legacy_parser_Numeric(values) == any("float", token_to_float(token(values)))

legacy_parser_Value(values) ==
    CASE values.choice = 0 -> ValueCase(values, "float", "float")
      [] values.choice = 1 -> ValueCase(values, "std::string", "string")
      [] values.choice = 2 -> ValueCase(values, "gd::constructable", "constructable")
      [] values.choice = 3 -> ValueCase(values, "gd::dictionary_t", "dictionary")
      [] values.choice = 4 -> ValueCase(values, "gd::array_t", "array")
      [] values.choice = 5 -> ValueCase(values, "bool", "bool")
      [] OTHER -> any("gd::value", default_value)

(***************************************************************************)
(* A rule with no callback yields its first sub-value, or an empty any.    *)
(***************************************************************************)
default_action(values) ==
    IF values.values = <<>> THEN empty_any ELSE values.values[1]

parser(name, values) ==
    CASE name = "File" -> parser_File(values)
      [] name = "Fields" -> parser_Fields(values)
      [] name = "Assignments" -> parser_Assignments(values)
      [] name = "Tag" -> parser_Tag(values)
      [] name = "Constructable" -> parser_Constructable(values)
      [] name = "Property" -> parser_Property(values)
      [] name = "Dictionary" -> parser_Dictionary(values)
      [] name = "Array" -> parser_Array(values)
      [] name = "Field" -> parser_Field(values)
      [] name = "String" -> parser_String(values)
      [] name = "Identifier" -> parser_Identifier(values)
      [] name = "Integer" -> parser_Integer(values)
      [] name = "Float" -> parser_Float(values)
      [] name = "Boolean" -> parser_Boolean(values)
      [] name = "Numeric" -> parser_Numeric(values)
      [] name = "Value" -> parser_Value(values)
      [] OTHER -> default_action(values)

legacy_parser(name, values) ==
    CASE name = "Numeric" -> legacy_parser_Numeric(values)
      [] name = "Value" -> legacy_parser_Value(values)
      [] name \in {"Integer", "Float"} -> default_action(values)
      [] OTHER -> parser(name, values)

(***************************************************************************)
(* The engine: peg::parser::parse on the loaded grammar.  ParseOpe matches *)
(* one PEG operator at position i of text s and yields whether it matched, *)
(* the position after the match, and what it added to the semantic values  *)
(* of the rule being matched.  tb says that the match is inside a token    *)
(* boundary <...>.  With %whitespace (line 333) the engine skips           *)
(* whitespace after every literal and after every token boundary that is   *)
(* not inside another one, and before the start rule.                      *)
(***************************************************************************)
the_parser == [grammar |-> grammar, legacy |-> FALSE]
the_legacy_parser == [grammar |-> legacy_grammar, legacy |-> TRUE]

fail(i) ==
    [ok |-> FALSE, pos |-> i, values |-> <<>>, tokens |-> <<>>, choice |-> -1,
     raised |-> {}]
success(i) ==
    [ok |-> TRUE, pos |-> i, values |-> <<>>, tokens |-> <<>>, choice |-> -1,
     raised |-> {}]

\* What a callback raised stays with the outcome of the match, also when the
\* match fails afterwards; a std::bad_any_cast leaves the parse at once.
raise(r, events) == [r EXCEPT !.raised = @ \cup events]
throws(r) == "std::bad_any_cast" \in r.raised

starts_with(s, i, text) ==
    /\ i + Len(text) - 1 <= Len(s)
    /\ SubSeq(s, i, i + Len(text) - 1) = text

reduce(p, name, values) ==
    IF p.legacy THEN legacy_parser(name, values) ELSE parser(name, values)

\* The 'default:' branches of the two switches (lines 459 and 479).
default_reached(name, values) ==
    \/ name = "Value" /\ values.choice \notin 0..5
    \/ name = "Numeric" /\ values.choice \notin 0..1

events(p, name, values, value) ==
    (IF value = bad_any_cast THEN {"std::bad_any_cast"} ELSE {})
        \cup (IF ~p.legacy /\ default_reached(name, values) THEN {"default"} ELSE {})

RECURSIVE ParseOpe(_, _, _, _, _)
RECURSIVE ParseSequence(_, _, _, _, _, _)
RECURSIVE ParsePrioritizedChoice(_, _, _, _, _, _)
RECURSIVE ParseRepetition(_, _, _, _, _, _)

skip_whitespace(p, s, i, tb) ==
    IF tb THEN i ELSE ParseOpe(p, p.grammar["%whitespace"], s, i, TRUE).pos

ParseLiteralString(p, ope, s, i, tb) ==
    IF starts_with(s, i, ope.lit)
    THEN success(skip_whitespace(p, s, i + Len(ope.lit), tb))
    ELSE fail(i)

ParseCharacterClass(ope, s, i) ==
    IF i <= Len(s) /\ ((s[i] \in ope.chars) # ope.negated)
    THEN success(i + 1)
    ELSE fail(i)

ParseDictionary(p, ope, s, i, tb) ==
    LET found == {w \in ope.words : starts_with(s, i, w)}
        best  == CHOOSE w \in found : \A v \in found : Len(v) <= Len(w)
    IN  IF found = {} THEN fail(i)
        ELSE success(skip_whitespace(p, s, i + Len(best), tb))

ParseTokenBoundary(p, ope, s, i, tb) ==
    LET r == ParseOpe(p, ope.ope, s, i, TRUE)
    IN  IF r.ok
        THEN [r EXCEPT !.pos = skip_whitespace(p, s, r.pos, tb),
                       !.tokens = r.tokens \o <<SubSeq(s, i, r.pos - 1)>>]
        ELSE raise(fail(i), r.raised)

ParseHolder(p, ope, s, i, tb) ==
    LET body == p.grammar[ope.name]
        r    == ParseOpe(p, body, s, i, tb)
        values == [values |-> r.values, tokens |-> r.tokens,
                   choice |-> IF body.op = "cho" THEN r.choice ELSE 0,
                   sv |-> SubSeq(s, i, r.pos - 1)]
        value == reduce(p, ope.name, values)
        after == raise(r, events(p, ope.name, values, value))
    IN  IF ~r.ok THEN raise(fail(i), r.raised)
        ELSE IF throws(after) THEN raise(fail(i), after.raised)
        ELSE raise([success(r.pos) EXCEPT !.values = <<value>>], after.raised)

ParseOpe(p, ope, s, i, tb) ==
    CASE ope.op = "lit" -> ParseLiteralString(p, ope, s, i, tb)
      [] ope.op = "cls" -> ParseCharacterClass(ope, s, i)
      [] ope.op = "dic" -> ParseDictionary(p, ope, s, i, tb)
      [] ope.op = "tok" -> ParseTokenBoundary(p, ope, s, i, tb)
      [] ope.op = "ref" -> ParseHolder(p, ope, s, i, tb)
      [] ope.op = "seq" -> ParseSequence(p, ope.opes, 1, s, success(i), tb)
      [] ope.op = "cho" -> ParsePrioritizedChoice(p, ope.opes, 1, s, i, tb)
      [] ope.op = "rep" -> ParseRepetition(p, ope, 0, s, success(i), tb)

append(acc, r) ==
    [ok |-> TRUE, pos |-> r.pos, values |-> acc.values \o r.values,
     tokens |-> acc.tokens \o r.tokens,
     choice |-> IF r.choice >= 0 THEN r.choice ELSE acc.choice,
     raised |-> acc.raised \cup r.raised]

ParseSequence(p, opes, k, s, acc, tb) ==
    IF k > Len(opes) THEN acc
    ELSE LET r == ParseOpe(p, opes[k], s, acc.pos, tb)
         IN  IF r.ok THEN ParseSequence(p, opes, k + 1, s, append(acc, r), tb)
             ELSE raise(fail(acc.pos), acc.raised \cup r.raised)

ParsePrioritizedChoice(p, opes, k, s, i, tb) ==
    IF k > Len(opes) THEN fail(i)
    ELSE LET r == ParseOpe(p, opes[k], s, i, tb)
         IN  IF r.ok THEN [r EXCEPT !.choice = k - 1]
             ELSE IF throws(r) THEN raise(fail(i), r.raised)
             ELSE raise(ParsePrioritizedChoice(p, opes, k + 1, s, i, tb), r.raised)

ParseRepetition(p, ope, count, s, acc, tb) ==
    IF count > 0 /\ ~ope.many THEN acc
    ELSE LET r == ParseOpe(p, ope.ope, s, acc.pos, tb)
         IN  IF r.ok /\ r.pos > acc.pos
             THEN ParseRepetition(p, ope, count + 1, s, append(acc, r), tb)
             ELSE IF count >= ope.min /\ ~throws(r) THEN raise(acc, r.raised)
             ELSE raise(fail(acc.pos), acc.raised \cup r.raised)

(***************************************************************************)
(* parser.parse(text, file), lines 491-495: the start rule is the first    *)
(* rule, File, after leading whitespace; the parse succeeds only when the  *)
(* match reaches the end of the text, and only then is the start rule's    *)
(* value cast to gd::file and assigned.  gd::parse returns the file either *)
(* way; one never assigned is the default-constructed, empty file.  A      *)
(* std::bad_any_cast thrown by a callback, or by the cast of the start     *)
(* rule's value, is caught nowhere and leaves gd::parse.                   *)
(***************************************************************************)
\* A parse that is content with a match of a prefix.
end_of_input_unchecked(s, r) ==
    [ret |-> r.ok, len |-> r.pos - 1,
     matched |-> r.ok, values |-> r.values, raised |-> r.raised]

end_of_input(s, r) ==
    [ret |-> r.ok /\ r.pos = Len(s) + 1, len |-> r.pos - 1,
     matched |-> r.ok, values |-> r.values, raised |-> r.raised]

parse_core(p, s) ==
    end_of_input(s, ParseOpe(p, ref("File"), s, skip_whitespace(p, s, 1, FALSE), FALSE))

get_value(r) ==
    IF "std::bad_any_cast" \in r.raised
    THEN [pc |-> "terminated", file |-> empty_file]
    ELSE IF r.ret /\ r.values # <<>>
    THEN IF r.values[1].type = "gd::file"
         THEN [pc |-> "returned", file |-> r.values[1].val]
         ELSE [pc |-> "terminated", file |-> empty_file]
    ELSE [pc |-> "returned", file |-> empty_file]

parse(p, s) == get_value(parse_core(p, s))

(***************************************************************************)
(* The state: the text in the stream, and for each of the two variants of  *)
(* gd::parse where the call stands and the gd::file it returned.  written  *)
(* is the document the text was written from (a sequence of tags, each     *)
(* with its header fields and its body assignments), kept beside the text  *)
(* so that what the parser built can be compared with what was written.    *)
(***************************************************************************)
VARIABLES written, stream, pc, file, legacy_pc, legacy_file

vars == <<written, stream, pc, file, legacy_pc, legacy_file>>

(***************************************************************************)
(* gd::parse(stream), lines 303-496, and the earlier variant's, lines      *)
(* 62-238.                                                                 *)
(***************************************************************************)
gd_parse ==
    /\ pc = "called"
    /\ \E out \in {parse(the_parser, stream)} : file' = out.file /\ pc' = out.pc
    /\ UNCHANGED <<written, stream, legacy_pc, legacy_file>>

legacy_gd_parse ==
    /\ legacy_pc = "called"
    /\ \E out \in {parse(the_legacy_parser, stream)} :
            legacy_file' = out.file /\ legacy_pc' = out.pc
    /\ UNCHANGED <<written, stream, pc, file>>

Next == gd_parse \/ legacy_gd_parse

(***************************************************************************)
(* Documents and how they are written out.  A value is written as a        *)
(* number, a quoted string, true or false, or a bracketed list of values,  *)
(* of "key": value properties, or of constructor arguments; comma says     *)
(* that the list is written with a ',' before its closing bracket.         *)
(***************************************************************************)
MaxList == 3
MaxTags == 3
MaxFields == 2
MaxJunk == 3
MaxNumeric == 5
MaxString == 5

Seqs(S, n) == UNION {[1..k -> S] : k \in 0..n}

Num(text)  == [kind |-> "num", text |-> text]
Str(text)  == [kind |-> "str", text |-> text]
Bool(text) == [kind |-> "bool", text |-> text]
Arr(items, comma) == [kind |-> "arr", items |-> items, comma |-> comma]
Dict(props, comma) == [kind |-> "dict", props |-> props, comma |-> comma]
Ctor(identifier, items, comma) ==
    [kind |-> "ctor", identifier |-> identifier, items |-> items, comma |-> comma]

RECURSIVE Render(_)
RECURSIVE RenderList(_, _)

RenderList(items, k) ==
    IF k > Len(items) THEN <<>>
    ELSE (IF k > 1 THEN <<",", " ">> ELSE <<>>)
         \o (IF "key" \in DOMAIN items[k]
             THEN <<"\"">> \o items[k].key \o <<"\"", ":", " ">> \o Render(items[k].value)
             ELSE Render(items[k]))
         \o RenderList(items, k + 1)

Closing(v) == IF v.comma THEN <<",">> ELSE <<>>

Render(v) ==
    CASE v.kind \in {"num", "bool"} -> v.text
      [] v.kind = "str" -> <<"\"">> \o v.text \o <<"\"">>
      [] v.kind = "arr" -> <<"[">> \o RenderList(v.items, 1) \o Closing(v) \o <<"]">>
      [] v.kind = "dict" -> <<"{">> \o RenderList(v.props, 1) \o Closing(v) \o <<"}">>
      [] v.kind = "ctor" ->
            v.identifier \o <<"(">> \o RenderList(v.items, 1) \o Closing(v) \o <<")">>

RenderField(f) == f.name \o <<" ", "=", " ">> \o Render(f.value)

RECURSIVE RenderFields(_, _, _)
RenderFields(fs, k, after) ==
    IF k > Len(fs) THEN <<>>
    ELSE RenderField(fs[k]) \o after \o RenderFields(fs, k + 1, after)

RenderTag(t) ==
    <<"[">> \o t.identifier
            \o (IF t.fields = <<>> THEN <<>> ELSE <<" ">>)
            \o RenderFields(t.fields, 1, <<" ">>) \o <<"]", "\n">>
            \o RenderFields(t.assignments, 1, <<"\n">>)

RECURSIVE RenderDocument(_, _)
RenderDocument(doc, k) ==
    IF k > Len(doc) THEN <<>>
    ELSE RenderTag(doc[k]) \o RenderDocument(doc, k + 1)

(***************************************************************************)
(* The documents of the checks.                                            *)
(***************************************************************************)
ScalarPool == {Num(<<"-", "2", ".", "5">>), Str(<<"a", " ", "b">>),
               Bool(<<"t", "r", "u", "e">>)}

ArgumentPool == {Num(<<"1">>), Str(<<"a">>)}

PropertyPool == {[key |-> <<"a">>, value |-> Num(<<"1">>)],
                 [key |-> <<"a">>, value |-> Num(<<"2">>)],
                 [key |-> <<"b">>, value |-> Str(<<"a">>)]}

IdentifierPool == {<<"V", "e", "c", "t", "o", "r", "2">>, <<"2", "d", "n", "o", "d", "e">>,
                   <<"1", ".", "5">>, <<"t", "r", "u", "e">>, <<":", ":">>}

Nested == Ctor(<<"V", "e", "c", "t", "o", "r", "2">>,
               <<Num(<<"1">>),
                 Ctor(<<"V", "e", "c", "t", "o", "r", "2">>,
                      <<Num(<<"2">>), Num(<<"3">>)>>, FALSE)>>, FALSE)

Arrays == {Arr(items, comma) : items \in Seqs(ScalarPool, MaxList), comma \in BOOLEAN}
Dictionaries ==
    {Dict(props, comma) : props \in Seqs(PropertyPool, MaxList), comma \in BOOLEAN}
Constructables ==
    {Ctor(id, items, comma) : id \in IdentifierPool,
                              items \in Seqs(ArgumentPool, MaxList), comma \in BOOLEAN}

\* A literal of more digits than an int holds.
Wide == Num(<<"4", "2", "9", "4", "9", "6", "7", "2", "9", "6">>)

Values == ScalarPool \cup Arrays \cup Dictionaries \cup Constructables
            \cup {Nested, Wide}

WrittenField(name, value) == [name |-> name, value |-> value]
WrittenTag(identifier, fields, assignments) ==
    [identifier |-> identifier, fields |-> fields, assignments |-> assignments]

\* One tag with one body assignment, of every value.
ValueDocuments ==
    {<<WrittenTag(<<"t">>, <<>>, <<WrittenField(<<"x">>, v)>>)>> : v \in Values}

TagPool ==
    {WrittenTag(<<"a">>, <<>>, <<>>),
     WrittenTag(<<"b">>, <<WrittenField(<<"k">>, Num(<<"1">>))>>,
                <<WrittenField(<<"x">>, Str(<<"a">>))>>),
     WrittenTag(<<"c">>, <<>>,
                <<WrittenField(<<"x">>, Arr(<<Num(<<"1">>), Num(<<"2">>)>>, FALSE)),
                  WrittenField(<<"y">>, Dict(<<[key |-> <<"a">>, value |-> Num(<<"1">>)]>>,
                                             FALSE))>>),
     WrittenTag(<<"a">>, <<WrittenField(<<"k">>, Bool(<<"t", "r", "u", "e">>)),
                           WrittenField(<<"k">>, Ctor(<<"V">>, <<Num(<<"1">>)>>, FALSE))>>,
                <<>>)}

\* Up to MaxTags tags.
TagDocuments == Seqs(TagPool, MaxTags)

FieldPool ==
    {WrittenField(<<"x">>, Num(<<"1">>)),
     WrittenField(<<"x">>, Arr(<<Bool(<<"f", "a", "l", "s", "e">>)>>, FALSE))}

\* One tag with up to MaxFields header fields and as many body assignments.
FieldDocuments ==
    {<<WrittenTag(<<"t">>, fs, as)>> :
        fs \in Seqs(FieldPool, MaxFields), as \in Seqs(FieldPool, MaxFields)}

Documents == ValueDocuments \cup TagDocuments \cup FieldDocuments

\* Text that follows a document of no tag, of a tag with no body and of a
\* tag with one.
JunkAlphabet == {"[", "]", "=", "x"}
Junk == Seqs(JunkAlphabet, MaxJunk)

JunkAfter(doc) ==
    IF doc \in Seqs({t \in TagPool : t.identifier \in {<<"b">>, <<"c">>}}, 1)
    THEN Junk ELSE {<<>>}

Init ==
    /\ written \in Documents
    /\ stream \in {RenderDocument(written, 1) \o junk : junk \in JunkAfter(written)}
    /\ pc = "called"
    /\ file = empty_file
    /\ legacy_pc = "called"
    /\ legacy_file = empty_file

Spec == Init /\ [][Next]_vars

(***************************************************************************)
(* Streams of one tag with one assignment, whose value is any text over    *)
(* the characters of numbers, and over those of strings.                   *)
(***************************************************************************)
Assignment == <<"[", "t", "]", "x", "=">>
ValueAt == Len(Assignment) + 1

NumericAlphabet == {"-", "1", ".", "e", "="}
StringAlphabet == {"\"", "\\", "a", " "}

InitRaw(texts) ==
    /\ written = <<>>
    /\ stream \in {Assignment \o text : text \in texts}
    /\ pc = "called"
    /\ file = empty_file
    /\ legacy_pc = "called"
    /\ legacy_file = empty_file

InitNumeric == InitRaw(Seqs(NumericAlphabet, MaxNumeric))
InitString == InitRaw(Seqs(StringAlphabet, MaxString))

SpecNumeric == InitNumeric /\ [][Next]_vars
SpecString == InitString /\ [][Next]_vars

(***************************************************************************)
(* What the specification says is built from a written value.  last says   *)
(* which occurrence of a repeated dictionary key gives the key its value.  *)
(***************************************************************************)
HasChar(text, c) == \E k \in 1..Len(text) : text[k] = c

RECURSIVE Built(_, _)

Mapping(props, last) ==
    [key \in {props[k].key : k \in 1..Len(props)} |->
        LET ks == {k \in 1..Len(props) : props[k].key = key}
            k  == CHOOSE k \in ks : \A j \in ks : IF last THEN j <= k ELSE k <= j
        IN  Built(props[k].value, last)]

Built(v, last) ==
    CASE v.kind = "num" ->
            [numeric |-> IF HasChar(v.text, ".")
                         THEN [float |-> token_to_float(v.text)]
                         ELSE [int |-> token_to_int(v.text)]]
      [] v.kind = "str" -> [string |-> v.text]
      [] v.kind = "bool" -> [bool |-> v.text = <<"t", "r", "u", "e">>]
      [] v.kind = "arr" ->
            [array |-> [k \in 1..Len(v.items) |-> Built(v.items[k], last)]]
      [] v.kind = "dict" -> [dictionary |-> Mapping(v.props, last)]
      [] v.kind = "ctor" ->
            [constructable |->
                [identifier |-> v.identifier,
                 arguments |-> [k \in 1..Len(v.items) |-> Built(v.items[k], last)]]]

RECURSIVE HasComma(_)
HasComma(v) ==
    CASE v.kind \in {"arr", "ctor"} ->
            v.comma \/ \E k \in 1..Len(v.items) : HasComma(v.items[k])
      [] v.kind = "dict" ->
            v.comma \/ \E k \in 1..Len(v.props) : HasComma(v.props[k].value)
      [] OTHER -> FALSE

TrailingComma(doc) ==
    \E i \in 1..Len(doc) :
        \E k \in 1..Len(doc[i].fields \o doc[i].assignments) :
            HasComma((doc[i].fields \o doc[i].assignments)[k].value)

(***************************************************************************)
(* The widening of the canonical tree to the earlier variant's one float.  *)
(***************************************************************************)
RECURSIVE DigitsOf(_)
DigitsOf(n) ==
    IF n < 10 THEN <<DigitChar[n]>> ELSE DigitsOf(n \div 10) \o <<DigitChar[n % 10]>>

int_to_float(n) ==
    IF n < 0 THEN Decimal(TRUE, DigitsOf(0 - n), 0) ELSE Decimal(FALSE, DigitsOf(n), 0)

RECURSIVE Widen(_)
Widen(v) ==
    CASE "numeric" \in DOMAIN v ->
            [float |-> IF "int" \in DOMAIN v.numeric
                       THEN int_to_float(v.numeric.int) ELSE v.numeric.float]
      [] "array" \in DOMAIN v ->
            [array |-> [k \in 1..Len(v.array) |-> Widen(v.array[k])]]
      [] "dictionary" \in DOMAIN v ->
            [dictionary |-> [key \in DOMAIN v.dictionary |-> Widen(v.dictionary[key])]]
      [] "constructable" \in DOMAIN v ->
            [constructable |->
                [identifier |-> v.constructable.identifier,
                 arguments |-> [k \in 1..Len(v.constructable.arguments) |->
                                    Widen(v.constructable.arguments[k])]]]
      [] OTHER -> v

WidenFields(fs) == [k \in 1..Len(fs) |-> [name |-> fs[k].name, value |-> Widen(fs[k].value)]]

WidenFile(f) ==
    [tags |-> [i \in 1..Len(f.tags) |->
                [identifier |-> f.tags[i].identifier,
                 fields |-> WidenFields(f.tags[i].fields),
                 assignments |-> WidenFields(f.tags[i].assignments)]]]

RECURSIVE DigitLed(_)
DigitLed(v) ==
    CASE "constructable" \in DOMAIN v ->
            \/ v.constructable.identifier[1] \in Digits
            \/ \E k \in 1..Len(v.constructable.arguments) :
                    DigitLed(v.constructable.arguments[k])
      [] "array" \in DOMAIN v -> \E k \in 1..Len(v.array) : DigitLed(v.array[k])
      [] "dictionary" \in DOMAIN v ->
            \E key \in DOMAIN v.dictionary : DigitLed(v.dictionary[key])
      [] OTHER -> FALSE

FileDigitLed ==
    \E i \in 1..Len(file.tags) :
        \E k \in 1..Len(file.tags[i].fields \o file.tags[i].assignments) :
            DigitLed((file.tags[i].fields \o file.tags[i].assignments)[k].value)

IntsFit ==
    ~ \E i \in 1..(Len(stream) - 9) : \A j \in 0..9 : stream[i + j] \in Digits

(***************************************************************************)
(* The states the claims are about.                                        *)
(***************************************************************************)
Returned == pc = "returned"
BothReturned == pc = "returned" /\ legacy_pc = "returned"
Accepts == file.tags # <<>>
LegacyAccepts == legacy_file.tags # <<>>

\* The stream holds the written document and nothing else.
AsWritten == written # <<>> /\ stream = RenderDocument(written, 1)
WellWritten == AsWritten /\ ~TrailingComma(written)

\* The file has the written document's tags, each with as many fields.
Aligned ==
    /\ Len(file.tags) = Len(written)
    /\ \A i \in 1..Len(written) :
        /\ Len(file.tags[i].fields) = Len(written[i].fields)
        /\ Len(file.tags[i].assignments) = Len(written[i].assignments)

EveryField(P(_, _)) ==
    \A i \in 1..Len(written) :
        /\ \A k \in 1..Len(written[i].fields) :
                P(written[i].fields[k], file.tags[i].fields[k])
        /\ \A k \in 1..Len(written[i].assignments) :
                P(written[i].assignments[k], file.tags[i].assignments[k])

SomeField(P(_, _)) == ~EveryField(LAMBDA w, f : ~P(w, f))

\* C1: a dictionary written with a key more than once holds, for
\* every key, the value of the key's last occurrence.
C1_LastOccurrence ==
    Returned /\ WellWritten =>
        /\ Aligned
        /\ EveryField(LAMBDA w, f :
                w.value.kind = "dict" =>
                    f.value = [dictionary |-> Mapping(w.value.props, TRUE)])

\* What the File rule matches of the stream, before the end of input is looked at.
FileMatch ==
    ParseOpe(the_parser, ref("File"), stream,
             skip_whitespace(the_parser, stream, 1, FALSE), FALSE)

\* C2: whenever the File rule does not match the stream to its end, also when
\* it matches leading tags, gd::parse returns a file with no tags.
C2_AllOrNothing ==
    Returned /\ ~(FileMatch.ok /\ FileMatch.pos = Len(stream) + 1) =>
        file.tags = <<>>

C2_Witness ==
    /\ Returned
    /\ FileMatch.ok /\ FileMatch.pos <= Len(stream)
    /\ FileMatch.values[1].val.tags # <<>>
    /\ file.tags = <<>>

\* C3: a well-formed stream of N >= 1 tags yields exactly N tags, and the i-th
\* is the tag written i-th: it has its identifier and is the tag the parser
\* builds from that tag's text alone.
C3_TagsInSourceOrder ==
    Returned /\ WellWritten =>
        /\ Len(file.tags) = Len(written)
        /\ \A i \in 1..Len(written) :
            /\ file.tags[i].identifier = written[i].identifier
            /\ <<file.tags[i]>> = parse(the_parser, RenderTag(written[i])).file.tags

C3_Witness ==
    /\ Returned /\ WellWritten /\ Len(written) > 2 /\ Len(file.tags) = Len(written)
    /\ written[1] # written[2] /\ written[2] # written[3]

\* The value of the Field rule on the text of one written field.
FieldMatch(f) == ParseOpe(the_parser, ref("Field"), RenderField(f), 1, FALSE).values[1].val

\* C4: tag.fields is the sequence of the fields written between '[' and ']'
\* and tag.assignments the sequence of those written after ']', each in source
\* order with repeated names kept; a tag written with no body fields has an
\* empty assignments sequence.
C4_FieldsAndAssignments ==
    Returned /\ WellWritten =>
        /\ Aligned
        /\ EveryField(LAMBDA w, f : f.name = w.name /\ f = FieldMatch(w))

C4_Witness ==
    /\ Returned /\ WellWritten /\ Aligned
    /\ Len(written[1].fields) = 2 /\ Len(written[1].assignments) = 2
    /\ written[1].fields[1].name = written[1].fields[2].name
    /\ written[1].fields # written[1].assignments
    /\ file.tags[1].fields # file.tags[1].assignments

RECURSIVE Counted(_, _, _)
Counted(w, v, distinct) ==
    CASE w.kind = "arr" ->
            /\ "array" \in DOMAIN v
            /\ Len(v.array) = Len(w.items)
            /\ \A k \in 1..Len(w.items) : Counted(w.items[k], v.array[k], distinct)
      [] w.kind = "ctor" ->
            /\ "constructable" \in DOMAIN v
            /\ Len(v.constructable.arguments) = Len(w.items)
            /\ \A k \in 1..Len(w.items) :
                    Counted(w.items[k], v.constructable.arguments[k], distinct)
      [] w.kind = "dict" ->
            /\ "dictionary" \in DOMAIN v
            /\ Cardinality(DOMAIN v.dictionary) =
                    IF distinct
                    THEN Cardinality({w.props[k].key : k \in 1..Len(w.props)})
                    ELSE Len(w.props)
      [] OTHER -> TRUE

\* C6 as claimed: a list written with a ',' before its closing bracket makes
\* the parse fail; every other list is accepted and yields exactly as many
\* elements as were written.
C6_AsManyAsWritten ==
    Returned /\ AsWritten =>
        IF TrailingComma(written) THEN file = empty_file
        ELSE Accepts /\ Aligned
             /\ EveryField(LAMBDA w, f : Counted(w.value, f.value, FALSE))

\* C6 as amended: the same, but a Dictionary yields as many entries as
\* distinct keys were written.
C6_AsManyDistinct ==
    Returned /\ AsWritten =>
        IF TrailingComma(written) THEN file = empty_file
        ELSE Accepts /\ Aligned
             /\ EveryField(LAMBDA w, f : Counted(w.value, f.value, TRUE))

C6_Witness ==
    /\ Returned /\ AsWritten /\ file = empty_file
    /\ Len(written) = 1 /\ Len(written[1].assignments) = 1
    /\ written[1].assignments[1].value.kind = "arr"
    /\ written[1].assignments[1].value.comma
    /\ Len(written[1].assignments[1].value.items) = 2

\* C7: a value written as an identifier followed by a parenthesised list is a
\* Constructable of that whole identifier and of the listed values in order,
\* whatever the identifier begins with or looks like.
C7_Constructable ==
    Returned /\ WellWritten =>
        /\ Aligned
        /\ EveryField(LAMBDA w, f :
                w.value.kind = "ctor" => f.value = Built(w.value, FALSE))

C7_Witness ==
    /\ Returned /\ WellWritten /\ Accepts /\ Aligned
    /\ SomeField(LAMBDA w, f :
            /\ w.value.kind = "ctor"
            /\ w.value.identifier = <<"1", ".", "5">>
            /\ Len(w.value.items) = 2
            /\ Len(f.value.constructable.arguments) = 2)

\* C9 as claimed: the two variants accept the same streams, and the trees of
\* an accepted stream are equal once the canonical numbers are widened.
C9_Equivalent ==
    BothReturned =>
        /\ Accepts <=> LegacyAccepts
        /\ Accepts => WidenFile(file) = legacy_file

\* C9 as amended: on a stream whose integer literals fit an int, what the
\* earlier variant accepts the canonical one accepts with an equal tree once
\* widened; what the canonical variant accepts the earlier one accepts unless
\* the tree holds a Constructable whose identifier begins with a digit, and
\* then the earlier variant rejects the stream.
C9_EquivalentUnlessDigitLed ==
    BothReturned /\ IntsFit =>
        /\ LegacyAccepts => Accepts /\ WidenFile(file) = legacy_file
        /\ Accepts /\ ~FileDigitLed => LegacyAccepts
        /\ Accepts /\ FileDigitLed => ~LegacyAccepts

C9_Witness ==
    /\ BothReturned /\ IntsFit /\ Accepts /\ LegacyAccepts
    /\ file # legacy_file
    /\ WidenFile(file) = legacy_file

RECURSIVE Holds(_, _)
Holds(v, alternative) ==
    \/ alternative \in DOMAIN v
    \/ "array" \in DOMAIN v /\ \E k \in 1..Len(v.array) : Holds(v.array[k], alternative)
    \/ "dictionary" \in DOMAIN v /\
            \E key \in DOMAIN v.dictionary : Holds(v.dictionary[key], alternative)
    \/ "constructable" \in DOMAIN v /\
            \E k \in 1..Len(v.constructable.arguments) :
                Holds(v.constructable.arguments[k], alternative)

\* C10: on every stream no callback's cast fails, so gd::parse is never left
\* by a std::bad_any_cast, and no 'default' branch of the Value and Numeric
\* switches is reached, in matches that are later given up included.
C10_CastsAgree ==
    /\ pc # "terminated"
    /\ Returned => FileMatch.raised = {}

C10_Witness ==
    /\ Returned /\ WellWritten /\ Aligned /\ FileMatch.raised = {}
    /\ \A alternative \in {"constructable", "dictionary", "array", "bool", "string",
                            "numeric"} :
            SomeField(LAMBDA w, f : Holds(f.value, alternative))

(***************************************************************************)
(* The forms of the literals, read off the text of the stream.             *)
(***************************************************************************)
RECURSIVE DigitsLen(_, _)
DigitsLen(s, i) ==
    IF i <= Len(s) /\ s[i] \in Digits THEN 1 + DigitsLen(s, i + 1) ELSE 0

Is(s, i, c) == i <= Len(s) /\ s[i] = c

\* The length of '-'? Digit+ at i, 0 when the text at i has not that form.
IntegerLen(s, i) ==
    LET sign == IF Is(s, i, "-") THEN 1 ELSE 0
    IN  IF DigitsLen(s, i + sign) > 0 THEN sign + DigitsLen(s, i + sign) ELSE 0

\* The length of Integer '.' Digit+ ('e' Integer)? at i, 0 when the text at i
\* has not that form.
FloatLen(s, i) ==
    LET whole    == IntegerLen(s, i)
        fraction == DigitsLen(s, i + whole + 1)
        mantissa == whole + 1 + fraction
        exponent == IntegerLen(s, i + mantissa + 1)
    IN  IF whole > 0 /\ Is(s, i + whole, ".") /\ fraction > 0
        THEN IF Is(s, i + mantissa, "e") /\ exponent > 0
             THEN mantissa + 1 + exponent ELSE mantissa
        ELSE 0

\* The value of the assignment the stream begins with, when it is a number.
Assigned == file.tags[1].assignments[1].value
AssignedNumeric == Returned /\ Accepts /\ "numeric" \in DOMAIN Assigned

\* C5 as claimed: an accepted numeric literal is of the Float variant exactly
\* when it has the form Integer '.' Digit+ ('e' Integer)?, and of the Integer
\* variant exactly when it is '-'? Digit+ with no '.' after it.
C5_NoFollowingDot ==
    AssignedNumeric =>
        /\ "float" \in DOMAIN Assigned.numeric <=> FloatLen(stream, ValueAt) > 0
        /\ "int" \in DOMAIN Assigned.numeric <=>
                /\ IntegerLen(stream, ValueAt) > 0
                /\ ~Is(stream, ValueAt + IntegerLen(stream, ValueAt), ".")

\* C5 as amended: an accepted numeric literal is of the Float variant exactly
\* when it has the form Integer '.' Digit+ ('e' Integer)?, and of the Integer
\* variant exactly when it is '-'? Digit+ with no '.' Digit+ after it; and a
\* value that is one such literal is accepted.
C5_NoFollowingFraction ==
    /\ AssignedNumeric =>
        /\ "float" \in DOMAIN Assigned.numeric <=> FloatLen(stream, ValueAt) > 0
        /\ "int" \in DOMAIN Assigned.numeric <=>
                /\ IntegerLen(stream, ValueAt) > 0
                /\ FloatLen(stream, ValueAt) = 0
    /\ Returned /\ Len(stream) >= ValueAt
        /\ Len(stream) + 1 - ValueAt \in {IntegerLen(stream, ValueAt),
                                          FloatLen(stream, ValueAt)}
        => Accepts /\ "numeric" \in DOMAIN Assigned

C5_Witness ==
    /\ AssignedNumeric
    /\ "int" \in DOMAIN Assigned.numeric
    /\ Is(stream, ValueAt + IntegerLen(stream, ValueAt), ".")
    /\ Len(file.tags[1].assignments) = 2

\* The position of the first '"' at or after i.
RECURSIVE NextQuote(_, _)
NextQuote(s, i) == IF i > Len(s) \/ s[i] = "\"" THEN i ELSE NextQuote(s, i + 1)

\* C8: the value of an accepted string literal is the characters between its
\* opening '"' and the next '"' of the stream, backslashes included.
C8_BetweenQuotes ==
    Returned /\ Accepts /\ Is(stream, ValueAt, "\"") =>
        Assigned = [string |-> SubSeq(stream, ValueAt + 1,
                                      NextQuote(stream, ValueAt + 1) - 1)]

=============================================================================
